---- MODULE Spec2Model ----
(***************************************************************************)
(* Model of covid19sim/frozen/clustering/simple.py: SimpleCluster and      *)
(* SimplisticClusterManager.  The manager owns an ordered list of clusters *)
(* and routes every encounter/update message to a matching cluster or to a *)
(* fresh singleton cluster.                                                *)
(***************************************************************************)
EXTENDS Integers, Sequences, FiniteSets, TLC

VARIABLES
    clusters,                        \* SimplisticClusterManager.clusters (creation order)
    latest_refresh_timestamp,        \* ClusterManagerBase.latest_refresh_timestamp
    max_history_ticks_offset,        \* constructor argument
    add_orphan_updates_as_clusters,  \* constructor argument
    rng,                             \* constructor argument: "None" or "np.random"
    call                             \* the most recent call and what it did

vars == <<clusters, latest_refresh_timestamp, max_history_ticks_offset,
          add_orphan_updates_as_clusters, rng, call>>

config == <<max_history_ticks_offset, add_orphan_updates_as_clusters, rng>>

(***************************************************************************)
(* Bounds of the model.                                                    *)
(***************************************************************************)
MaxUid == 2        \* anonymous ids are 1..MaxUid
MaxRisk == 2       \* risk levels are 0..MaxRisk
MaxTime == 2       \* encounter/update ticks are 1..MaxTime
MaxSender == 1     \* real sender ids are 1..MaxSender
MaxFitted == 3     \* messages attributed to clusters over a run
MaxClusters == 2   \* clusters a manager holds

Uids == 1..MaxUid
RiskLevels == 0..MaxRisk
Times == 1..MaxTime
Senders == 1..MaxSender
Expositions == {FALSE}
RealTimes == {MaxTime}
UpdateTimes == {MaxTime}     \* an update is sent at the latest tick
HistoryOffsets == {0, MaxTime}

None == [kind |-> "None"]

(***************************************************************************)
(* Messages (covid19sim.frozen.message_utils).                             *)
(***************************************************************************)
EncounterMessages ==
    [kind : {"EncounterMessage"}, uid : Uids, risk_level : RiskLevels,
     encounter_time : Times, _sender_uid : Senders,
     _real_encounter_time : RealTimes, _exposition_event : Expositions]

UpdateMessages ==
    [kind : {"UpdateMessage"}, uid : Uids, old_risk_level : RiskLevels,
     new_risk_level : RiskLevels, encounter_time : Times, update_time : UpdateTimes,
     _sender_uid : Senders, _real_encounter_time : RealTimes,
     _exposition_event : Expositions]

IsEncounterMessage(message) == message.kind = "EncounterMessage"

\* the encounter a cluster holds for an update that matched nothing
create_encounter_from_update_message(update_message) ==
    [kind |-> "EncounterMessage",
     uid |-> update_message.uid,
     risk_level |-> update_message.new_risk_level,
     encounter_time |-> update_message.encounter_time,
     _sender_uid |-> update_message._sender_uid,
     _real_encounter_time |-> update_message._real_encounter_time,
     _exposition_event |-> update_message._exposition_event]

\* the encounter that results from merging an update into a held encounter
create_updated_encounter_with_message(encounter_message, update_message) ==
    [encounter_message EXCEPT !.risk_level = update_message.new_risk_level]

(***************************************************************************)
(* Arithmetic helpers.                                                     *)
(***************************************************************************)
Max(a, b) == IF a >= b THEN a ELSE b

RECURSIVE SumRisk(_)
SumRisk(messages) ==
    IF messages = <<>> THEN 0
    ELSE Head(messages).risk_level + SumRisk(Tail(messages))

\* np.round with halves always rounded up
RoundHalfUp(num, den) == (2 * num + den) \div (2 * den)

\* np.round(num / den): nearest integer, halves go to the even neighbour
NpRound(num, den) ==
    LET q == num \div den
        r == num % den
    IN  IF 2 * r < den THEN q
        ELSE IF 2 * r > den THEN q + 1
        ELSE IF q % 2 = 0 THEN q ELSE q + 1

\* the risk levels added up and never divided by their number
TotalRiskLevel(messages) == SumRisk(messages)

\* RiskLevelType(np.round(np.mean([m.risk_level for m in self.messages])))
MeanRiskLevel(messages) == NpRound(SumRisk(messages), Len(messages))

(***************************************************************************)
(* SimpleCluster.                                                          *)
(***************************************************************************)
\* create_cluster_from_message with latest_update_time always the encounter time
create_cluster_encounter_timed(message) ==
    [cluster_id |-> message.uid,
     risk_level |-> IF IsEncounterMessage(message) THEN message.risk_level
                    ELSE message.new_risk_level,
     first_update_time |-> message.encounter_time,
     latest_update_time |-> message.encounter_time,
     messages |-> IF IsEncounterMessage(message) THEN <<message>>
                  ELSE <<create_encounter_from_update_message(message)>>,
     _real_encounter_uids |-> <<message._sender_uid>>,
     _real_encounter_times |-> <<message._real_encounter_time>>,
     _unclustered_messages |-> <<message>>]

\* create_cluster_from_message with first_update_time taken from the real time
create_cluster_real_timed(message) ==
    [cluster_id |-> message.uid,
     risk_level |-> IF IsEncounterMessage(message) THEN message.risk_level
                    ELSE message.new_risk_level,
     first_update_time |-> message._real_encounter_time,
     latest_update_time |-> IF IsEncounterMessage(message) THEN message.encounter_time
                            ELSE message.update_time,
     messages |-> IF IsEncounterMessage(message) THEN <<message>>
                  ELSE <<create_encounter_from_update_message(message)>>,
     _real_encounter_uids |-> <<message._sender_uid>>,
     _real_encounter_times |-> <<message._real_encounter_time>>,
     _unclustered_messages |-> <<message>>]

\* create_cluster_from_message logging the held encounter, not the raw message
create_cluster_logging_held(message) ==
    [cluster_id |-> message.uid,
     risk_level |-> IF IsEncounterMessage(message) THEN message.risk_level
                    ELSE message.new_risk_level,
     first_update_time |-> message.encounter_time,
     latest_update_time |-> IF IsEncounterMessage(message) THEN message.encounter_time
                            ELSE message.update_time,
     messages |-> IF IsEncounterMessage(message) THEN <<message>>
                  ELSE <<create_encounter_from_update_message(message)>>,
     _real_encounter_uids |-> <<message._sender_uid>>,
     _real_encounter_times |-> <<message._real_encounter_time>>,
     _unclustered_messages |-> IF IsEncounterMessage(message) THEN <<message>>
                  ELSE <<create_encounter_from_update_message(message)>>]

\* create_cluster_from_message with the two times of an update exchanged
create_cluster_times_swapped(message) ==
    [cluster_id |-> message.uid,
     risk_level |-> IF IsEncounterMessage(message) THEN message.risk_level
                    ELSE message.new_risk_level,
     first_update_time |-> IF IsEncounterMessage(message) THEN message.encounter_time
                           ELSE message.update_time,
     latest_update_time |-> message.encounter_time,
     messages |-> IF IsEncounterMessage(message) THEN <<message>>
                  ELSE <<create_encounter_from_update_message(message)>>,
     _real_encounter_uids |-> <<message._sender_uid>>,
     _real_encounter_times |-> <<message._real_encounter_time>>,
     _unclustered_messages |-> <<message>>]

create_cluster_from_message(message) ==
    [cluster_id |-> message.uid,
     risk_level |-> IF IsEncounterMessage(message) THEN message.risk_level
                    ELSE message.new_risk_level,
     first_update_time |-> message.encounter_time,
     latest_update_time |-> IF IsEncounterMessage(message) THEN message.encounter_time
                            ELSE message.update_time,
     messages |-> IF IsEncounterMessage(message) THEN <<message>>
                  ELSE <<create_encounter_from_update_message(message)>>,
     _real_encounter_uids |-> <<message._sender_uid>>,
     _real_encounter_times |-> <<message._real_encounter_time>>,
     _unclustered_messages |-> <<message>>]

\* fit_encounter_message assigning latest_update_time without the max
fit_encounter_latest_overwritten(cluster, message) ==
    LET appended == Append(cluster.messages, message)
    IN  [cluster EXCEPT
            !.latest_update_time = message.encounter_time,
            !.messages = appended,
            !.risk_level = MeanRiskLevel(appended),
            !._real_encounter_uids = Append(@, message._sender_uid),
            !._real_encounter_times = Append(@, message._real_encounter_time),
            !._unclustered_messages = Append(@, message)]

\* fit_encounter_message assigning [message] to messages in place of the append
fit_encounter_resetting_messages(cluster, message) ==
    [cluster EXCEPT
        !.latest_update_time = Max(message.encounter_time, cluster.latest_update_time),
        !.messages = <<message>>,
        !.risk_level = MeanRiskLevel(<<message>>),
        !._real_encounter_uids = Append(@, message._sender_uid),
        !._real_encounter_times = Append(@, message._real_encounter_time),
        !._unclustered_messages = Append(@, message)]

fit_encounter_message(cluster, message) ==
    LET appended == Append(cluster.messages, message)
    IN  [cluster EXCEPT
            !.latest_update_time = Max(message.encounter_time, cluster.latest_update_time),
            !.messages = appended,
            !.risk_level = MeanRiskLevel(appended),
            !._real_encounter_uids = Append(@, message._sender_uid),
            !._real_encounter_times = Append(@, message._real_encounter_time),
            !._unclustered_messages = Append(@, message)]

\* the test of the scan in fit_update_message without the uid comparison
UpdateAppliesIgnoringUid(encounter_message, update_message) ==
    /\ encounter_message.risk_level = update_message.old_risk_level
    /\ encounter_message.encounter_time = update_message.encounter_time

\* the test of the scan in fit_update_message
UpdateAppliesTo(encounter_message, update_message) ==
    /\ encounter_message.risk_level = update_message.old_risk_level
    /\ encounter_message.uid = update_message.uid
    /\ encounter_message.encounter_time = update_message.encounter_time

\* found_match without the break: the last held encounter the update applies to
FoundLastMatch(messages, update_message) ==
    LET hits == {i \in 1..Len(messages) : UpdateAppliesTo(messages[i], update_message)}
    IN  IF hits = {} THEN 0
        ELSE CHOOSE i \in hits : \A j \in hits : i >= j

\* found_match: index of the first held encounter the update applies to, 0 if none
FoundMatch(messages, update_message) ==
    LET hits == {i \in 1..Len(messages) : UpdateAppliesTo(messages[i], update_message)}
    IN  IF hits = {} THEN 0
        ELSE CHOOSE i \in hits : \A j \in hits : i <= j

\* fit_update_message without the append to _unclustered_messages
fit_update_unlogged(cluster, update_message) ==
    LET found == FoundMatch(cluster.messages, update_message)
    IN  IF found = 0
        THEN [cluster |-> cluster, ret |-> update_message]
        ELSE LET replaced ==
                   [cluster.messages EXCEPT ![found] =
                       create_updated_encounter_with_message(@, update_message)]
             IN  [cluster |->
                    [cluster EXCEPT
                        !.messages = replaced,
                        !.latest_update_time =
                            Max(update_message.encounter_time, cluster.latest_update_time),
                        !.risk_level = MeanRiskLevel(replaced),
                        !._real_encounter_uids = Append(@, update_message._sender_uid),
                        !._real_encounter_times =
                            Append(@, update_message._real_encounter_time)],
                  ret |-> None]

\* fit_update_message: the cluster afterwards and the value returned
fit_update_message(cluster, update_message) ==
    LET found == FoundMatch(cluster.messages, update_message)
    IN  IF found = 0
        THEN [cluster |-> cluster, ret |-> update_message]
        ELSE LET replaced ==
                   [cluster.messages EXCEPT ![found] =
                       create_updated_encounter_with_message(@, update_message)]
             IN  [cluster |->
                    [cluster EXCEPT
                        !.messages = replaced,
                        !.latest_update_time =
                            Max(update_message.encounter_time, cluster.latest_update_time),
                        !.risk_level = MeanRiskLevel(replaced),
                        !._real_encounter_uids = Append(@, update_message._sender_uid),
                        !._real_encounter_times =
                            Append(@, update_message._real_encounter_time),
                        !._unclustered_messages = Append(@, update_message)],
                  ret |-> None]

(***************************************************************************)
(* ClusterManagerBase: the staleness predicate the manager consults first. *)
(***************************************************************************)
\* latest_refresh_timestamp once the message has been seen
RefreshedTimestamp(message) == Max(message.encounter_time, latest_refresh_timestamp)

\* TRUE when the message is older than the retention window
_check_if_message_outdated(message) ==
    message.encounter_time < RefreshedTimestamp(message) - max_history_ticks_offset

(***************************************************************************)
(* SimplisticClusterManager.                                               *)
(***************************************************************************)
RECURSIVE NumFitted(_)
NumFitted(cs) ==
    IF cs = <<>> THEN 0
    ELSE Len(Head(cs)._unclustered_messages) + NumFitted(Tail(cs))

\* the test of the scan in _add_encounter_message without the risk comparison
EncounterMatchIgnoringRisk(cluster, message) ==
    /\ cluster.cluster_id = message.uid
    /\ cluster.first_update_time = message.encounter_time

\* the test of the scan in _add_encounter_message without the time comparison
EncounterMatchIgnoringTime(cluster, message) ==
    /\ cluster.cluster_id = message.uid
    /\ cluster.risk_level = message.risk_level

\* the test of the scan in _add_encounter_message
EncounterSignatureMatch(cluster, message) ==
    /\ cluster.cluster_id = message.uid
    /\ cluster.risk_level = message.risk_level
    /\ cluster.first_update_time = message.encounter_time

\* the test of the scan in _add_update_message without the look into messages
UpdateMatchIgnoringHeldRisk(cluster, message) ==
    /\ cluster.cluster_id = message.uid
    /\ cluster.first_update_time = message.encounter_time

\* the test of the scan in _add_update_message without the uid comparison
UpdateMatchIgnoringUid(cluster, message) ==
    /\ cluster.first_update_time = message.encounter_time
    /\ \E i \in 1..Len(cluster.messages) :
            cluster.messages[i].risk_level = message.old_risk_level

\* the test of the scan in _add_update_message
UpdateClusterMatch(cluster, message) ==
    /\ cluster.cluster_id = message.uid
    /\ cluster.first_update_time = message.encounter_time
    /\ \E i \in 1..Len(cluster.messages) :
            cluster.messages[i].risk_level = message.old_risk_level

EncounterHits(message) ==
    {i \in 1..Len(clusters) : EncounterSignatureMatch(clusters[i], message)}

UpdateHits(message) ==
    {i \in 1..Len(clusters) : UpdateClusterMatch(clusters[i], message)}

\* matched_cluster taking matched_clusters[-1] of an unbroken scan
MatchedClusterLatest(hits) ==
    IF rng = "None" THEN {CHOOSE i \in hits : \A j \in hits : i >= j}
    ELSE hits

\* matched_cluster: the scan stops at the first hit when rng is None and
\* matched_clusters[0] is taken; otherwise rng.choice over every hit
MatchedCluster(hits) ==
    IF rng = "None" THEN {CHOOSE i \in hits : \A j \in hits : i <= j}
    ELSE hits

Called(op, message, outcome, idx, ret) ==
    [op |-> op, message |-> message, outcome |-> outcome, idx |-> idx, ret |-> ret]

\* _add_encounter_message after the staleness predicate has answered
AddEncounter(message, outdated) ==
    IF outdated
    THEN /\ clusters' = clusters
         /\ call' = Called("_add_encounter_message", message, "dropped", 0, None)
    ELSE IF EncounterHits(message) # {}
    THEN \E k \in MatchedCluster(EncounterHits(message)) :
            /\ clusters' = [clusters EXCEPT ![k] = fit_encounter_message(@, message)]
            /\ call' = Called("_add_encounter_message", message, "fit", k, None)
    ELSE /\ clusters' = Append(clusters, create_cluster_from_message(message))
         /\ call' = Called("_add_encounter_message", message, "created",
                           Len(clusters) + 1, None)

\* _add_encounter_message without the early return for outdated messages
add_encounter_unchecked(message) ==
    /\ NumFitted(clusters) < MaxFitted
    /\ latest_refresh_timestamp' = RefreshedTimestamp(message)
    /\ AddEncounter(message, FALSE)
    /\ Len(clusters') <= MaxClusters
    /\ UNCHANGED config

_add_encounter_message(message) ==
    /\ NumFitted(clusters) < MaxFitted
    /\ latest_refresh_timestamp' = RefreshedTimestamp(message)
    /\ AddEncounter(message, _check_if_message_outdated(message))
    /\ Len(clusters') <= MaxClusters
    /\ UNCHANGED config

\* _add_update_message after the staleness predicate has answered
AddUpdate(message, outdated) ==
    IF outdated
    THEN /\ clusters' = clusters
         /\ call' = Called("_add_update_message", message, "dropped", 0, None)
    ELSE IF UpdateHits(message) # {}
    THEN \E k \in MatchedCluster(UpdateHits(message)) :
            LET fitted == fit_update_message(clusters[k], message)
            IN  /\ clusters' = [clusters EXCEPT ![k] = fitted.cluster]
                /\ call' = Called("_add_update_message", message, "fit", k, fitted.ret)
    ELSE IF add_orphan_updates_as_clusters
    THEN /\ clusters' = Append(clusters, create_cluster_from_message(message))
         /\ call' = Called("_add_update_message", message, "created",
                           Len(clusters) + 1, None)
    ELSE /\ clusters' = clusters
         /\ call' = Called("_add_update_message", message, "raised", 0, None)

_add_update_message(message) ==
    /\ NumFitted(clusters) < MaxFitted
    /\ latest_refresh_timestamp' = RefreshedTimestamp(message)
    /\ AddUpdate(message, _check_if_message_outdated(message))
    /\ Len(clusters') <= MaxClusters
    /\ UNCHANGED config

(***************************************************************************)
(* Exports of the manager (read-only).                                     *)
(***************************************************************************)
get_cluster_embedding(cluster, current_timestamp, include_cluster_id) ==
    IF include_cluster_id
    THEN <<cluster.cluster_id, cluster.risk_level, Len(cluster.messages),
           current_timestamp - cluster.first_update_time>>
    ELSE <<cluster.risk_level, Len(cluster.messages),
           current_timestamp - cluster.first_update_time>>

\* one copy of the cluster's row per held message with this encounter_time
RECURSIVE MessageRows(_, _, _)
MessageRows(messages, timestamp, row) ==
    IF messages = <<>> THEN <<>>
    ELSE (IF Head(messages).encounter_time = timestamp THEN <<row>> ELSE <<>>)
         \o MessageRows(Tail(messages), timestamp, row)

\* cluster_embeds[timestamp] once the loop over the clusters has ended
RECURSIVE cluster_embeds(_, _)
cluster_embeds(cs, timestamp) ==
    IF cs = <<>> THEN <<>>
    ELSE MessageRows(Head(cs).messages, timestamp,
                     get_cluster_embedding(Head(cs), latest_refresh_timestamp, TRUE))
         \o cluster_embeds(Tail(cs), timestamp)

\* cluster_embeds.keys()
EmbedKeys ==
    UNION {{clusters[i].messages[j].encounter_time : j \in 1..Len(clusters[i].messages)} :
            i \in 1..Len(clusters)}

\* sorted(keys), keys in descending order instead
RECURSIVE SortedDescending(_)
SortedDescending(keys) ==
    IF keys = {} THEN <<>>
    ELSE LET top == CHOOSE x \in keys : \A y \in keys : x >= y
         IN  <<top>> \o SortedDescending(keys \ {top})

\* sorted(keys)
RECURSIVE Sorted(_)
Sorted(keys) ==
    IF keys = {} THEN <<>>
    ELSE LET least == CHOOSE x \in keys : \A y \in keys : x <= y
         IN  <<least>> \o Sorted(keys \ {least})

RECURSIVE flat_output(_)
flat_output(timestamps) ==
    IF timestamps = <<>> THEN <<>>
    ELSE cluster_embeds(clusters, Head(timestamps)) \o flat_output(Tail(timestamps))

get_embeddings_array(by_timestamp) ==
    IF by_timestamp
    THEN flat_output(Sorted(EmbedKeys))
    ELSE [i \in 1..Len(clusters) |->
            get_cluster_embedding(clusters[i], latest_refresh_timestamp, FALSE)]

\* _get_cluster_exposition_flag with all() in place of any()
exposition_flag_of_all(cluster) ==
    \A i \in 1..Len(cluster.messages) : cluster.messages[i]._exposition_event

\* any([bool(m._exposition_event) for m in self.messages])
_get_cluster_exposition_flag(cluster) ==
    \E i \in 1..Len(cluster.messages) : cluster.messages[i]._exposition_event

\* cluster_flags[timestamp] once the loop over the clusters has ended
RECURSIVE cluster_flags(_, _)
cluster_flags(cs, timestamp) ==
    IF cs = <<>> THEN <<>>
    ELSE MessageRows(Head(cs).messages, timestamp, _get_cluster_exposition_flag(Head(cs)))
         \o cluster_flags(Tail(cs), timestamp)

RECURSIVE flat_flags(_)
flat_flags(timestamps) ==
    IF timestamps = <<>> THEN <<>>
    ELSE cluster_flags(clusters, Head(timestamps)) \o flat_flags(Tail(timestamps))

\* np.asarray(flag, dtype=np.uint8)
AsUint8(flag) == IF flag THEN 1 ELSE 0

_get_expositions_array(by_timestamp) ==
    IF by_timestamp
    THEN flat_flags(Sorted(EmbedKeys))
    ELSE [i \in 1..Len(clusters) |-> AsUint8(_get_cluster_exposition_flag(clusters[i]))]

\* the number of held messages sent by the user
RECURSIVE CountSender(_, _)
CountSender(messages, user) ==
    IF messages = <<>> THEN 0
    ELSE (IF Head(messages)._sender_uid = user THEN 1 ELSE 0)
         + CountSender(Tail(messages), user)

\* cluster_users of one cluster
cluster_users(cluster) ==
    {cluster.messages[i]._sender_uid : i \in 1..Len(cluster.messages)}

\* user_true_encounter_counts[user] once the loop over the clusters has ended
RECURSIVE user_true_encounter_counts(_, _)
user_true_encounter_counts(cs, user) ==
    IF cs = <<>> THEN 0
    ELSE CountSender(Head(cs).messages, user) + user_true_encounter_counts(Tail(cs), user)

\* user_total_encounter_count[user] adding one per cluster of the user
RECURSIVE total_counting_clusters(_, _)
total_counting_clusters(cs, user) ==
    IF cs = <<>> THEN 0
    ELSE (IF user \in cluster_users(Head(cs)) THEN 1 ELSE 0)
         + total_counting_clusters(Tail(cs), user)

\* user_total_encounter_count[user] once the loop over the clusters has ended
RECURSIVE user_total_encounter_count(_, _)
user_total_encounter_count(cs, user) ==
    IF cs = <<>> THEN 0
    ELSE (IF user \in cluster_users(Head(cs)) THEN Len(Head(cs).messages) ELSE 0)
         + user_total_encounter_count(Tail(cs), user)

\* the users _get_homogeneity_scores returns a score for
ScoredUsers == UNION {cluster_users(clusters[i]) : i \in 1..Len(clusters)}

\* _get_homogeneity_scores: per user the two counts whose quotient is the score
_get_homogeneity_scores ==
    [user \in ScoredUsers |->
        [true_count |-> user_true_encounter_counts(clusters, user),
         total_count |-> user_total_encounter_count(clusters, user)]]

(***************************************************************************)
(* The manager driven by a dispatcher, one message at a time.              *)
(***************************************************************************)
Init ==
    /\ clusters = <<>>
    /\ latest_refresh_timestamp = 0
    /\ max_history_ticks_offset \in HistoryOffsets
    /\ add_orphan_updates_as_clusters \in BOOLEAN
    /\ rng \in {"None", "np.random"}
    /\ call = Called("__init__", None, "none", 0, None)

Next ==
    \/ \E message \in EncounterMessages : _add_encounter_message(message)
    \/ \E message \in UpdateMessages : _add_update_message(message)

Spec == Init /\ [][Next]_vars

(***************************************************************************)
(* Unit-level use: a caller that also invokes the fit operations of a      *)
(* cluster directly, without the manager's scan.                           *)
(***************************************************************************)
direct_fit_encounter_message(k, message) ==
    /\ NumFitted(clusters) < MaxFitted
    /\ clusters' = [clusters EXCEPT ![k] = fit_encounter_message(@, message)]
    /\ call' = Called("fit_encounter_message", message, "fit", k, None)
    /\ UNCHANGED <<latest_refresh_timestamp, config>>

direct_fit_update_message(k, update_message) ==
    /\ NumFitted(clusters) < MaxFitted
    /\ LET fitted == fit_update_message(clusters[k], update_message)
       IN  /\ clusters' = [clusters EXCEPT ![k] = fitted.cluster]
           /\ call' = Called("fit_update_message", update_message,
                             IF fitted.ret = None THEN "fit" ELSE "returned",
                             k, fitted.ret)
    /\ UNCHANGED <<latest_refresh_timestamp, config>>

NextDirect ==
    \/ Next
    \/ \E k \in 1..Len(clusters) : \E message \in EncounterMessages :
            direct_fit_encounter_message(k, message)
    \/ \E k \in 1..Len(clusters) : \E message \in UpdateMessages :
            direct_fit_update_message(k, message)

\* the unit-level caller builds its manager with the constructor's defaults
\* for the policy and the randomness source
InitDirect ==
    /\ Init
    /\ add_orphan_updates_as_clusters = FALSE
    /\ rng = "None"

SpecDirect == InitDirect /\ [][NextDirect]_vars

(***************************************************************************)
(* Offline evaluation: the manager fed with messages of several real       *)
(* senders, exposed or not, under one anonymous id.                        *)
(***************************************************************************)
MaxEvalRisk == 1     \* risk levels of the evaluated messages are 0..MaxEvalRisk
MaxEvalSender == 2   \* their real senders are 1..MaxEvalSender

EvalEncounterMessages ==
    [kind : {"EncounterMessage"}, uid : {1}, risk_level : 0..MaxEvalRisk,
     encounter_time : Times, _sender_uid : 1..MaxEvalSender,
     _real_encounter_time : RealTimes, _exposition_event : BOOLEAN]

EvalUpdateMessages ==
    [kind : {"UpdateMessage"}, uid : {1}, old_risk_level : 0..MaxEvalRisk,
     new_risk_level : 0..MaxEvalRisk, encounter_time : Times,
     update_time : UpdateTimes, _sender_uid : 1..MaxEvalSender,
     _real_encounter_time : RealTimes, _exposition_event : BOOLEAN]

NextEval ==
    \/ \E message \in EvalEncounterMessages : _add_encounter_message(message)
    \/ \E message \in EvalUpdateMessages : _add_update_message(message)

SpecEval == Init /\ [][NextEval]_vars

(***************************************************************************)
(* A repeated contact: the manager fed with a longer run of messages that  *)
(* all carry one anonymous id and one encounter tick.                      *)
(***************************************************************************)
MaxRepeatFitted == 4   \* messages attributed to clusters over such a run

RepeatEncounterMessages ==
    {message \in EncounterMessages :
        message.uid = 1 /\ message.encounter_time = MaxTime}

RepeatUpdateMessages ==
    {message \in UpdateMessages :
        message.uid = 1 /\ message.encounter_time = MaxTime}

repeat_add_encounter_message(message) ==
    /\ NumFitted(clusters) < MaxRepeatFitted
    /\ latest_refresh_timestamp' = RefreshedTimestamp(message)
    /\ AddEncounter(message, _check_if_message_outdated(message))
    /\ Len(clusters') <= MaxClusters
    /\ UNCHANGED config

repeat_add_update_message(message) ==
    /\ NumFitted(clusters) < MaxRepeatFitted
    /\ latest_refresh_timestamp' = RefreshedTimestamp(message)
    /\ AddUpdate(message, _check_if_message_outdated(message))
    /\ Len(clusters') <= MaxClusters
    /\ UNCHANGED config

NextRepeat ==
    \/ \E message \in RepeatEncounterMessages : repeat_add_encounter_message(message)
    \/ \E message \in RepeatUpdateMessages : repeat_add_update_message(message)

SpecRepeat == Init /\ [][NextRepeat]_vars

(***************************************************************************)
(* Unvalidated input: neither the cluster nor the manager compares the     *)
(* update_time of an update with its encounter_time, so the manager is     *)
(* also fed with updates dated before the encounter they refer to.         *)
(***************************************************************************)
UndatedEncounterMessages ==
    {message \in EncounterMessages : message.uid = 1}

UndatedUpdateMessages ==
    [kind : {"UpdateMessage"}, uid : {1}, old_risk_level : RiskLevels,
     new_risk_level : RiskLevels, encounter_time : Times, update_time : Times,
     _sender_uid : Senders, _real_encounter_time : RealTimes,
     _exposition_event : Expositions]

NextUndated ==
    \/ \E message \in UndatedEncounterMessages : _add_encounter_message(message)
    \/ \E message \in UndatedUpdateMessages : _add_update_message(message)

SpecUndated == Init /\ [][NextUndated]_vars

(***************************************************************************)
(* Properties.                                                             *)
(***************************************************************************)
StepOf(op) == call'.op = op
Message == call'.message
NonStale == ~_check_if_message_outdated(call'.message)
OthersUnchanged(k) == \A i \in 1..Len(clusters) : i # k => clusters'[i] = clusters[i]
AddedCluster == clusters'[Len(clusters')]

\* the clusters whose signature equals the encounter's
SameSignature(message) ==
    {i \in 1..Len(clusters) :
        /\ clusters[i].cluster_id = message.uid
        /\ clusters[i].risk_level = message.risk_level
        /\ clusters[i].first_update_time = message.encounter_time}

\* the clusters an update may be applied to
UpdateCandidates(message) ==
    {i \in 1..Len(clusters) :
        /\ clusters[i].cluster_id = message.uid
        /\ clusters[i].first_update_time = message.encounter_time
        /\ \E j \in 1..Len(clusters[i].messages) :
                clusters[i].messages[j].risk_level = message.old_risk_level}

Earliest(S) == CHOOSE i \in S : \A j \in S : i <= j

C2_EarliestWins ==
    [][(rng = "None" /\ NonStale) =>
        /\ (StepOf("_add_encounter_message") /\ SameSignature(Message) # {}) =>
              LET k == Earliest(SameSignature(Message))
              IN  /\ clusters'[k]._unclustered_messages =
                        Append(clusters[k]._unclustered_messages, Message)
                  /\ Len(clusters') = Len(clusters)
                  /\ OthersUnchanged(k)
        /\ (StepOf("_add_update_message") /\ UpdateCandidates(Message) # {}) =>
              LET k == Earliest(UpdateCandidates(Message))
              IN  /\ clusters'[k]._unclustered_messages =
                        Append(clusters[k]._unclustered_messages, Message)
                  /\ Len(clusters') = Len(clusters)
                  /\ OthersUnchanged(k)]_vars

\* an update went to the first cluster although the second matched it too
C2_Witness ==
    /\ rng = "None"
    /\ call.op = "_add_update_message"
    /\ call.outcome = "fit"
    /\ call.idx = 1
    /\ Len(clusters) = 2
    /\ clusters[2].cluster_id = call.message.uid
    /\ clusters[2].first_update_time = call.message.encounter_time
    /\ \E j \in 1..Len(clusters[2].messages) :
            clusters[2].messages[j].risk_level = call.message.old_risk_level

IsRoundedMean(r, messages) ==
    LET n == Len(messages)
        twice == 2 * (n * r - SumRisk(messages))
    IN  \/ (twice < n /\ -twice < n)
        \/ ((twice = n \/ -twice = n) /\ r % 2 = 0)

\* C6: every cluster's risk_level is the mean risk level of the messages it
\* holds, rounded to the nearest integer with ties going to the even one.
C6_RiskIsRoundedMean ==
    \A i \in 1..Len(clusters) :
        IsRoundedMean(clusters[i].risk_level, clusters[i].messages)

\* a cluster whose mean lies halfway below its (even) risk_level, after an update
C6_Witness ==
    /\ call.op = "_add_update_message"
    /\ call.outcome = "fit"
    /\ LET c == clusters[call.idx]
       IN  2 * SumRisk(c.messages) = Len(c.messages) * (2 * c.risk_level - 1)

SameEncounterSignature(a, b) ==
    /\ a.uid = b.uid
    /\ a.risk_level = b.risk_level
    /\ a.encounter_time = b.encounter_time

\* C7: without a randomness source, two non-stale encounters with the same
\* (uid, risk_level, encounter_time) ingested one after the other end in the
\* same cluster and the second creates no cluster; from an empty manager the
\* result is one cluster holding both, with their risk_level.
C7_SameSignatureSameCluster ==
    [][(/\ rng = "None"
        /\ call.op = "_add_encounter_message"
        /\ call.outcome \in {"fit", "created"}
        /\ StepOf("_add_encounter_message")
        /\ SameEncounterSignature(call.message, Message)
        /\ NonStale) =>
        LET k == call.idx
            held == clusters'[k].messages
        IN  /\ call'.outcome = "fit"
            /\ call'.idx = k
            /\ Len(clusters') = Len(clusters)
            /\ Len(held) >= 2
            /\ held[Len(held) - 1] = call.message
            /\ held[Len(held)] = Message
            /\ (call.outcome = "created" /\ k = 1) =>
                    /\ Len(clusters') = 1
                    /\ held = <<call.message, Message>>
                    /\ clusters'[1].risk_level = Message.risk_level]_vars

\* the second of two equal encounters joined the first in the only cluster
C7_Witness ==
    /\ rng = "None"
    /\ call.op = "_add_encounter_message"
    /\ call.outcome = "fit"
    /\ Len(clusters) = 1
    /\ Len(clusters[1].messages) = 2
    /\ SameEncounterSignature(clusters[1].messages[1], clusters[1].messages[2])
    /\ clusters[1]._unclustered_messages = clusters[1].messages

\* the held encounters an update applies to
Applicable(messages, update_message) ==
    {i \in 1..Len(messages) :
        /\ messages[i].risk_level = update_message.old_risk_level
        /\ messages[i].uid = update_message.uid
        /\ messages[i].encounter_time = update_message.encounter_time}

\* C8: an applied update replaces the first held encounter it applies to by
\* the merged encounter; every other entry keeps its value and position and
\* the number of entries is unchanged.
C8_FirstEntryReplaced ==
    [][(StepOf("_add_update_message") /\ call'.outcome = "fit" /\ call'.ret = None) =>
        LET old == clusters[call'.idx].messages
            new == clusters'[call'.idx].messages
            hits == Applicable(old, Message)
        IN  /\ hits # {}
            /\ Len(new) = Len(old)
            /\ new[Earliest(hits)].risk_level = Message.new_risk_level
            /\ new[Earliest(hits)].uid = old[Earliest(hits)].uid
            /\ new[Earliest(hits)].encounter_time = old[Earliest(hits)].encounter_time
            /\ \A i \in 1..Len(old) : i # Earliest(hits) => new[i] = old[i]]_vars

\* an update changed the first of two entries it applied to and not the second
C8_Witness ==
    /\ call.op = "_add_update_message"
    /\ call.outcome = "fit"
    /\ call.ret = None
    /\ call.message.old_risk_level # call.message.new_risk_level
    /\ LET held == clusters[call.idx].messages
       IN  /\ Len(held) = 2
           /\ held[1].risk_level = call.message.new_risk_level
           /\ held[2].risk_level = call.message.old_risk_level
           /\ held[2].uid = call.message.uid
           /\ held[2].encounter_time = call.message.encounter_time

\* C9: fit_update_message called on a cluster that holds no encounter the
\* update applies to returns the update and leaves the cluster as it was;
\* when it applies the update it returns None.
C9_MissReturnsUpdate ==
    [][StepOf("fit_update_message") =>
        IF Applicable(clusters[call'.idx].messages, Message) = {}
        THEN /\ call'.ret = Message
             /\ clusters' = clusters
        ELSE call'.ret = None]_vars

\* an update was handed back by a cluster holding an encounter with its old
\* risk level and encounter time under another uid
C9_Witness ==
    /\ call.op = "fit_update_message"
    /\ call.ret = call.message
    /\ \E j \in 1..Len(clusters[call.idx].messages) :
            LET held == clusters[call.idx].messages[j]
            IN  /\ held.risk_level = call.message.old_risk_level
                /\ held.encounter_time = call.message.encounter_time
                /\ held.uid # call.message.uid

\* the held messages, by cluster position and position in the cluster
Slots ==
    UNION {{<<i, j>> : j \in 1..Len(clusters[i].messages)} : i \in 1..Len(clusters)}

SlotTime(p) == clusters[p[1]].messages[p[2]].encounter_time

InsertedBefore(p, q) == p[1] < q[1] \/ (p[1] = q[1] /\ p[2] < q[2])

\* the row of a held message: after every message with an earlier encounter
\* time and every earlier-inserted message with the same encounter time
RowOf(p) ==
    1 + Cardinality({q \in Slots :
            \/ SlotTime(q) < SlotTime(p)
            \/ (SlotTime(q) = SlotTime(p) /\ InsertedBefore(q, p))})

\* C10: the timestamp-aligned export has one row per held message, the
\* 4-element embedding of the cluster holding it, in ascending encounter time
\* and in insertion order among equal encounter times.
C10_RowsPerMessageByTime ==
    LET out == get_embeddings_array(TRUE)
    IN  /\ Len(out) = Cardinality(Slots)
        /\ \A p \in Slots :
              out[RowOf(p)] = <<clusters[p[1]].cluster_id,
                                clusters[p[1]].risk_level,
                                Len(clusters[p[1]].messages),
                                latest_refresh_timestamp - clusters[p[1]].first_update_time>>

\* the later-created cluster holds two messages of an earlier encounter time
C10_Witness ==
    /\ Len(clusters) = 2
    /\ clusters[2].first_update_time < clusters[1].first_update_time
    /\ Len(clusters[2].messages) = 2
    /\ Len(get_embeddings_array(TRUE)) = 3
    /\ get_embeddings_array(TRUE)[1][1] = clusters[2].cluster_id
    /\ get_embeddings_array(TRUE)[3][1] = clusters[1].cluster_id
    /\ clusters[1].cluster_id # clusters[2].cluster_id

\* some message held by the cluster is an exposition
HoldsExposition(cluster) ==
    \E i \in 1..Len(cluster.messages) : cluster.messages[i]._exposition_event = TRUE

\* C11: in both output modes the expositions array has as many rows as the
\* embeddings array, and row i carries the exposure flag of the cluster whose
\* embedding is row i of the embeddings array.
C11_ExpositionsAlignWithEmbeddings ==
    /\ Len(_get_expositions_array(TRUE)) = Len(get_embeddings_array(TRUE))
    /\ Len(_get_expositions_array(FALSE)) = Len(get_embeddings_array(FALSE))
    /\ Len(get_embeddings_array(TRUE)) = Cardinality(Slots)
    /\ Len(get_embeddings_array(FALSE)) = Len(clusters)
    /\ \A p \in Slots :
          /\ get_embeddings_array(TRUE)[RowOf(p)] =
                get_cluster_embedding(clusters[p[1]], latest_refresh_timestamp, TRUE)
          /\ _get_expositions_array(TRUE)[RowOf(p)] = HoldsExposition(clusters[p[1]])
    /\ \A i \in 1..Len(clusters) :
          /\ get_embeddings_array(FALSE)[i] =
                get_cluster_embedding(clusters[i], latest_refresh_timestamp, FALSE)
          /\ (_get_expositions_array(FALSE)[i] = 1) = HoldsExposition(clusters[i])
          /\ _get_expositions_array(FALSE)[i] \in {0, 1}

\* the later-created cluster comes first by time and alone holds an
\* exposition, next to a message that is none
C11_Witness ==
    /\ Len(clusters) = 2
    /\ clusters[2].first_update_time < clusters[1].first_update_time
    /\ Len(clusters[2].messages) = 2
    /\ clusters[2].messages[1]._exposition_event
    /\ ~clusters[2].messages[2]._exposition_event
    /\ ~clusters[1].messages[1]._exposition_event
    /\ _get_expositions_array(TRUE) = <<TRUE, TRUE, FALSE>>
    /\ _get_expositions_array(FALSE) = <<0, 1>>

\* the held messages of a real sender
SlotsOf(user) == {p \in Slots : clusters[p[1]].messages[p[2]]._sender_uid = user}

\* C12: every real sender of a held message has a score, with
\* 1 <= true_count <= total_count, so the quotient is defined and in [0,1].
C12_HomogeneityInUnitInterval ==
    \A p \in Slots :
        LET user == clusters[p[1]].messages[p[2]]._sender_uid
        IN  /\ user \in DOMAIN _get_homogeneity_scores
            /\ _get_homogeneity_scores[user].true_count = Cardinality(SlotsOf(user))
            /\ _get_homogeneity_scores[user].true_count >= 1
            /\ _get_homogeneity_scores[user].true_count
                  <= _get_homogeneity_scores[user].total_count

\* one sender has two messages in a cluster it shares with another sender
C12_Witness ==
    /\ DOMAIN _get_homogeneity_scores = {1, 2}
    /\ _get_homogeneity_scores[1].true_count = 2
    /\ _get_homogeneity_scores[1].total_count = 3
    /\ _get_homogeneity_scores[2].true_count = 1
    /\ _get_homogeneity_scores[2].total_count = 3

\* C13: whenever _add_update_message selects a cluster for a non-stale
\* update, fit_update_message finds an encounter the update applies to and
\* applies it: the update is never handed back.
C13_SelectedClusterApplies ==
    [][(StepOf("_add_update_message") /\ NonStale /\ UpdateCandidates(Message) # {}) =>
        /\ call'.outcome = "fit"
        /\ call'.idx \in UpdateCandidates(Message)
        /\ Applicable(clusters[call'.idx].messages, Message) # {}
        /\ call'.ret = None
        /\ clusters'[call'.idx]._unclustered_messages =
              Append(clusters[call'.idx]._unclustered_messages, Message)]_vars

\* an update was applied in a manager whose other cluster holds its old risk
\* level and encounter time under another uid
C13_Witness ==
    /\ call.op = "_add_update_message"
    /\ call.outcome = "fit"
    /\ call.ret = None
    /\ Len(clusters) = 2
    /\ LET other == clusters[3 - call.idx]
       IN  /\ other.cluster_id # call.message.uid
           /\ other.first_update_time = call.message.encounter_time
           /\ other.messages[1].risk_level = call.message.old_risk_level

\* the greatest encounter_time among the messages of a log
RECURSIVE LatestEncounterTime(_)
LatestEncounterTime(log) ==
    IF log = <<>> THEN 0
    ELSE LET rest == LatestEncounterTime(Tail(log))
         IN  IF Head(log).encounter_time >= rest THEN Head(log).encounter_time ELSE rest

\* the time a cluster starts with: the encounter time of a seeding encounter,
\* the update time of a seeding update
SeedTime(message) ==
    IF message.kind = "UpdateMessage" THEN message.update_time
    ELSE message.encounter_time

\* the seed's time or a later encounter time of a fitted message
LatestAttributedTime(cluster) ==
    LET seed == SeedTime(Head(cluster._unclustered_messages))
        fitted == LatestEncounterTime(Tail(cluster._unclustered_messages))
    IN  IF seed >= fitted THEN seed ELSE fitted

GrewByOne == {i \in 1..Len(clusters) :
                Len(clusters'[i].messages) = Len(clusters[i].messages) + 1}

SameLength == {i \in 1..Len(clusters) :
                Len(clusters'[i].messages) = Len(clusters[i].messages)}

LogBefore(i) == clusters[i]._unclustered_messages
LogAfter(i) == clusters'[i]._unclustered_messages

\* C16: the log of a cluster has one entry at creation, gains exactly the
\* fitted message on every fit_encounter and every fit_update that applies
\* (one that returns None), and is left as it was by every other step,
\* whatever happens to messages.
C16_LogGrowsByOnePerFit ==
    [][/\ Len(clusters') > Len(clusters) =>
            /\ Len(clusters') = Len(clusters) + 1
            /\ AddedCluster._unclustered_messages = <<Message>>
       /\ (call'.outcome = "fit" /\ call'.ret = None) =>
            /\ LogAfter(call'.idx) = Append(LogBefore(call'.idx), Message)
            /\ \A i \in 1..Len(clusters) : i # call'.idx => LogAfter(i) = LogBefore(i)
       /\ (call'.outcome # "fit" \/ call'.ret # None) =>
            \A i \in 1..Len(clusters) : LogAfter(i) = LogBefore(i)]_vars

\* a fit_update_message call merged into a cluster of two messages, whose log
\* is now longer than its messages
C16_Witness ==
    /\ call.op = "fit_update_message"
    /\ call.outcome = "fit"
    /\ Len(clusters[call.idx].messages) = 2
    /\ Len(clusters[call.idx]._unclustered_messages) = 3

\* C17: every message a cluster of the manager holds carries the cluster's
\* first_update_time as its encounter_time, under either policy and with or
\* without a randomness source.
C17_OneTimestampPerCluster ==
    \A i \in 1..Len(clusters) :
        \A j \in 1..Len(clusters[i].messages) :
            clusters[i].messages[j].encounter_time = clusters[i].first_update_time

\* two clusters of different timestamps, one of them holding two messages
C17_Witness ==
    /\ Len(clusters) = 2
    /\ clusters[1].first_update_time # clusters[2].first_update_time
    /\ clusters[1].cluster_id = clusters[2].cluster_id
    /\ \E i \in 1..2 : Len(clusters[i].messages) = 2

\* C18: an encounter fitted by _add_encounter_message leaves the risk_level
\* of the cluster it joins as it was, also when the cluster holds messages
\* of other risk levels; no encounter changes the risk_level of a cluster
\* that existed before it.
C18_EncounterFitKeepsRisk ==
    [][StepOf("_add_encounter_message") =>
        /\ call'.outcome = "fit" =>
              /\ clusters[call'.idx].risk_level = Message.risk_level
              /\ clusters'[call'.idx].risk_level = clusters[call'.idx].risk_level
              /\ Len(clusters'[call'.idx].messages) =
                    Len(clusters[call'.idx].messages) + 1
        /\ \A i \in 1..Len(clusters) :
              clusters'[i].risk_level = clusters[i].risk_level]_vars

\* an encounter joined a cluster that holds a message of another risk level
C18_Witness ==
    /\ call.op = "_add_encounter_message"
    /\ call.outcome = "fit"
    /\ \E j \in 1..Len(clusters[call.idx].messages) :
            clusters[call.idx].messages[j].risk_level # call.message.risk_level

\* the message of the step is one the manager must refuse: an update that no
\* cluster can take, under the strict policy
Rejected ==
    /\ StepOf("_add_update_message")
    /\ ~add_orphan_updates_as_clusters
    /\ UpdateCandidates(Message) = {}

\* the clusters, old or new, whose log the step has changed
LogChanged ==
    {i \in 1..Len(clusters') :
        i > Len(clusters) \/ LogAfter(i) # LogBefore(i)}

Seed(cluster) == cluster._unclustered_messages[1]

\* the seed is an update dated before the encounter it refers to
SeedDatedEarly(cluster) ==
    /\ Seed(cluster).kind = "UpdateMessage"
    /\ Seed(cluster).update_time < Seed(cluster).encounter_time

====
